---- MODULE Spec2Model ----
(***************************************************************************)
(* A model of erelim's object-relational mapper (src/erelim/orm.py): the   *)
(* record types' SQL generation, the Database gateway's CRUD operations    *)
(* with row materialization, and the QueryObject builder.                  *)
(*                                                                         *)
(* SQL statements are modelled by their structure (the column list of a    *)
(* CREATE, the WHERE keys, the ORDER BY field and direction, the presence  *)
(* of LIMIT ?) and the storage engine by what sqlite does with them.       *)
(***************************************************************************)
EXTENDS Integers, Sequences, FiniteSets, TLC

VARIABLES
    db,        \* the stored rows: table -> (id -> row tuple, in column order)
    seq,       \* sqlite_sequence: the largest id AUTOINCREMENT ever gave, per table
    created,   \* table -> the column list of the CREATE statement run, or <<>>
    inst,      \* the caller's in-memory instances: slot -> [id, f: field -> value]
    last,      \* the last gateway operation and what it returned or raised
    q,         \* the QueryObject's attributes
    calls,     \* history of the builder calls made (what the caller asked for)
    stack,     \* the frames of get_by_id / _build_instance under way
    declared   \* which record types the caller declared

vars == <<db, seq, created, inst, last, q, calls, stack, declared>>

----------------------------------------------------------------------------
(* Bounds of the model. *)

MaxRows == 2        \* saves tried on the author table (ids 1..MaxRows)
MaxBookRows == 1    \* saves tried on each other table
MaxCalls == 2       \* where calls made on one builder
MaxDepth == 4       \* nested get_by_id calls followed before the run is cut

(* None: Python's None and SQL's NULL where an id is expected; sqlite's    *)
(* AUTOINCREMENT ids start at 1.                                           *)
None == 0

----------------------------------------------------------------------------
(* Strings.  Python and sqlite's BINARY collation compare strings by code  *)
(* point; the strings used here are made of upper-case letters (65..90),   *)
(* "_" (95) and lower-case letters (97..122).                              *)

Alphabet == "ABCDEFGHIJKLMNOPQRSTUVWXYZ_abcdefghijklmnopqrstuvwxyz"

Ord(c) == CHOOSE i \in 1..Len(Alphabet) : SubSeq(Alphabet, i, i) = c

RECURSIVE StrLessFrom(_, _, _)
StrLessFrom(a, b, i) ==
    IF i > Len(b) THEN FALSE
    ELSE IF i > Len(a) THEN TRUE
    ELSE LET ca == Ord(SubSeq(a, i, i))
             cb == Ord(SubSeq(b, i, i))
         IN  IF ca # cb THEN ca < cb ELSE StrLessFrom(a, b, i + 1)

StrLess(a, b) == StrLessFrom(a, b, 1)

EndsWithId(field) ==
    Len(field) >= 3 /\ SubSeq(field, Len(field) - 2, Len(field)) = "_id"

StripId(field) == SubSeq(field, 1, Len(field) - 3)

----------------------------------------------------------------------------
(* The record types.  Author, Book and Novel are the test suite's; Rec has *)
(* a scalar column whose name ends in "_id"; Review makes a foreign-key    *)
(* chain of two; Node references its own type.                             *)

Col(name, type) == [name |-> name, kind |-> "Column", type |-> type, table |-> "-"]
FK(name, table) == [name |-> name, kind |-> "ForeignKey", type |-> "-", table |-> table]

Tables == {"author", "book", "novel", "rec", "review", "node"}

Decl(t) ==
    CASE t = "author" -> << Col("name", "str"), Col("age", "int") >>
      [] t = "book"   -> << Col("title", "str"), Col("published", "bool"),
                            FK("author", "author") >>
      [] t = "novel"  -> << Col("title", "str"), Col("published", "bool"),
                            Col("year", "int"), FK("author", "author") >>
      [] t = "rec"    -> << Col("ref_id", "int") >>
      [] t = "review" -> << Col("stars", "int"), FK("book", "book") >>
      [] t = "node"   -> << Col("label", "str"), FK("nxt", "node") >>

SQLITE_TYPE_MAP(type) ==
    CASE type = "int"   -> "INTEGER"
      [] type = "float" -> "REAL"
      [] type = "str"   -> "TEXT"
      [] type = "bytes" -> "BLOB"
      [] type = "bool"  -> "INTEGER"

Range(s) == { s[i] : i \in DOMAIN s }

(* getattr(cls, name): the descriptor declared under that name, if any. *)
HasAttr(t, name) == \E d \in Range(Decl(t)) : d.name = name
GetAttr(t, name) == CHOOSE d \in Range(Decl(t)) : d.name = name

(* inspect.getmembers(cls), kept to the Column and ForeignKey members:     *)
(* getmembers returns the members sorted by name.                          *)
RECURSIVE SortByName(_)
SortByName(S) ==
    IF S = {} THEN <<>>
    ELSE LET m == CHOOSE d \in S : \A e \in S \ {d} : StrLess(d.name, e.name)
         IN  <<m>> \o SortByName(S \ {m})

(* getmembers kept the order of declaration. *)
GetMembersDeclared(t) == Decl(t)

(* The members of each record type (the class does not change once        *)
(* declared, so getmembers gives the same list at every call).             *)
Members == [t \in Tables |-> SortByName(Range(Decl(t)))]

GetMembers(t) == Members[t]

(* The stored column a member maps to. *)
ColumnName(d) == IF d.kind = "ForeignKey" THEN d.name \o "_id" ELSE d.name

ColumnDef(d) ==
    IF d.kind = "ForeignKey"
    THEN <<d.name \o "_id", "INTEGER">>
    ELSE <<d.name, SQLITE_TYPE_MAP(d.type)>>

(* Table._get_create_sql: the column definitions of the statement. *)
GetCreateSql(t) ==
    LET ms == GetMembers(t)
    IN  << <<"id", "INTEGER PRIMARY KEY AUTOINCREMENT">> >>
        \o [i \in 1..Len(ms) |-> ColumnDef(ms[i])]

(* The field list of Table._get_select_sql. *)
SelectFields(t) ==
    LET ms == GetMembers(t)
    IN  <<"id">> \o [i \in 1..Len(ms) |-> ColumnName(ms[i])]

----------------------------------------------------------------------------
(* The caller's instances.  A slot names one in-memory instance; its type  *)
(* is fixed.  A foreign-key field holds another instance (a slot).         *)

Slots == {"a1", "b1", "r1"}

TableOf(s) ==
    CASE s = "a1" -> "author"
      [] s = "b1" -> "book"
      [] s = "r1" -> "rec"

(* The values a caller may give a field (each of the declared type). *)
FieldValues(t, name) ==
    CASE t = "author" /\ name = "name"   -> {"X", "Y"}
      [] t = "author" /\ name = "age"    -> {30}
      [] t = "book" /\ name = "title"    -> {"T"}
      [] t = "book" /\ name = "published" -> BOOLEAN
      [] t = "book" /\ name = "author"   -> {"a1"}
      [] t = "rec" /\ name = "ref_id"    -> {5}

(* Table.__init__: _data holds id = None and the keyword arguments. *)
TableInit(fields) == [id |-> None, f |-> fields]

(* Table.__getattribute__: a key of _data reads from _data. *)
GetAttribute(i, key) == IF key = "id" THEN i.id ELSE i.f[key]

(* Table.__setattr__: writes the attribute, and _data when it has the key. *)
SetAttr(i, key, value) ==
    IF key = "id" THEN [i EXCEPT !.id = value] ELSE [i EXCEPT !.f[key] = value]

(* sqlite3's adaptation of a Python value bound to a parameter: a bool is  *)
(* stored as the integer 1 or 0 (a field holds a value of its declared     *)
(* type, so the declared type tells a bool).                               *)
Bind(type, value) == IF type = "bool" THEN (IF value THEN 1 ELSE 0) ELSE value

(* The value one member contributes to INSERT and UPDATE:                  *)
(* getattr(self, name), or getattr(self, name).id for a ForeignKey.        *)
MemberValue(insts, i, d) ==
    IF d.kind = "ForeignKey"
    THEN insts[GetAttribute(i, d.name)].id
    ELSE Bind(d.type, GetAttribute(i, d.name))

(* Table._get_insert_sql: the column names and the values, member by member. *)
GetInsertSql(insts, s) ==
    LET ms == GetMembers(TableOf(s))
    IN  [fields |-> [k \in 1..Len(ms) |-> ColumnName(ms[k])],
         values |-> [k \in 1..Len(ms) |-> MemberValue(insts, insts[s], ms[k])]]

(* Table._get_update_sql: the SET columns, and the values with the id last. *)
GetUpdateSql(insts, s) ==
    LET ms == GetMembers(TableOf(s))
    IN  [fields |-> [k \in 1..Len(ms) |-> ColumnName(ms[k])],
         values |-> [k \in 1..Len(ms) |-> MemberValue(insts, insts[s], ms[k])]
                    \o <<GetAttribute(insts[s], "id")>>]

----------------------------------------------------------------------------
(* The storage engine.  A table's columns are those of the CREATE          *)
(* statement that made it; a row is the tuple of its values in that order. *)

TableColumns(cr, t) == [k \in 1..Len(cr[t]) |-> cr[t][k][1]]

IndexOf(sq, x) == CHOOSE k \in 1..Len(sq) : sq[k] = x

(* The row an INSERT or UPDATE naming `fields` writes: each table column   *)
(* takes the value given for it.                                           *)
RowOf(cr, t, id, fields, values) ==
    LET cols == TableColumns(cr, t)
    IN  [k \in 1..Len(cols) |->
            IF cols[k] = "id" THEN id ELSE values[IndexOf(fields, cols[k])]]

RowsById(rows, id) == { r \in rows : id # None /\ r[1] = id }

----------------------------------------------------------------------------
(* SELECT.  Table._get_select_sql gives the statement (the WHERE keys in   *)
(* keyword order), the field list and the parameters; kwargs is a sequence *)
(* of <<key, value>> pairs.                                                *)

GetSelectSql(t, kwargs) ==
    [table  |-> t,
     where  |-> [k \in 1..Len(kwargs) |-> kwargs[k][1]],
     fields |-> SelectFields(t),
     params |-> [k \in 1..Len(kwargs) |-> kwargs[k][2]],
     order  |-> <<>>,
     limit  |-> FALSE]

(* `column = ?`: never true of a NULL column or a NULL parameter. *)
SqlEq(column, value, param) ==
    IF EndsWithId(column) \/ column = "id"
    THEN value # None /\ param # None /\ value = param
    ELSE value = param

(* The rows a statement's WHERE clause keeps. *)
Matching(cr, rows, stmt) ==
    LET cols == TableColumns(cr, stmt.table)
    IN  { r \in rows : \A k \in 1..Len(stmt.where) :
            SqlEq(stmt.where[k], r[IndexOf(cols, stmt.where[k])], stmt.params[k]) }

(* A statement fails to prepare when its table or a column it names does   *)
(* not exist (sqlite3.OperationalError).                                   *)
Prepares(cr, stmt) ==
    /\ cr[stmt.table] # <<>>
    /\ \A k \in 1..Len(stmt.where) : stmt.where[k] \in Range(TableColumns(cr, stmt.table))
    /\ stmt.order # <<>> => stmt.order[1] \in Range(TableColumns(cr, stmt.table))

(* Rows in rowid order: the order of a scan of the table. *)
RECURSIVE ByRowid(_)
ByRowid(S) ==
    IF S = {} THEN <<>>
    ELSE LET m == CHOOSE r \in S : \A o \in S : r[1] <= o[1]
         IN  <<m>> \o ByRowid(S \ {m})

----------------------------------------------------------------------------
(* Row materialization: Database.get_by_id and Database._build_instance.   *)
(* An instance read back is [status |-> "ok", table, f: field -> value];   *)
(* a missing row gives NoneObj; an exception gives its name as status.     *)

NoneObj == [status |-> "None"]
Raised(e) == [status |-> e]

RECURSIVE GetByIdR(_, _, _, _)
RECURSIVE BuildFields(_, _, _, _, _, _, _)

(* The loop of _build_instance from the k-th (field, value) pair on; acc   *)
(* is what setattr has put on the instance so far.                         *)
BuildFields(cr, rows, t, fields, row, k, acc) ==
    IF k > Len(fields) \/ k > Len(row) THEN [status |-> "ok", table |-> t, f |-> acc]
    ELSE LET field == fields[k]
             value == row[k]
         IN  IF EndsWithId(field)
             THEN LET name == StripId(field)
                  IN  IF ~HasAttr(t, name) \/ GetAttr(t, name).kind # "ForeignKey"
                      THEN Raised("AttributeError")
                      ELSE LET v == GetByIdR(cr, rows, GetAttr(t, name).table, value)
                           IN  IF v.status \notin {"ok", "None"} THEN v
                               ELSE BuildFields(cr, rows, t, fields, row, k + 1,
                                                (name :> v) @@ acc)
             ELSE IF HasAttr(t, field) /\ GetAttr(t, field).type = "bool"
             THEN BuildFields(cr, rows, t, fields, row, k + 1, (field :> (value = 1)) @@ acc)
             ELSE BuildFields(cr, rows, t, fields, row, k + 1, (field :> value) @@ acc)

BuildInstance(cr, rows, t, fields, row) == BuildFields(cr, rows, t, fields, row, 1, <<>>)

GetByIdR(cr, rows, t, id) ==
    LET stmt == GetSelectSql(t, << <<"id", id>> >>)
    IN  IF ~Prepares(cr, stmt) THEN Raised("OperationalError")
        ELSE LET found == ByRowid(Matching(cr, rows[t], stmt))
             IN  IF found # <<>>
                 THEN BuildInstance(cr, rows, t, stmt.fields, found[1])
                 ELSE NoneObj

(* The list comprehension of get_all, filter and execute: the first        *)
(* exception ends it.                                                      *)
RECURSIVE BuildAll(_, _, _, _, _, _)
BuildAll(cr, rows, t, fields, found, k) ==
    IF k > Len(found) THEN [status |-> "ok", list |-> <<>>]
    ELSE LET one == BuildInstance(cr, rows, t, fields, found[k])
         IN  IF one.status # "ok" THEN one
             ELSE LET rest == BuildAll(cr, rows, t, fields, found, k + 1)
                  IN  IF rest.status # "ok" THEN rest
                      ELSE [status |-> "ok", list |-> <<one>> \o rest.list]

----------------------------------------------------------------------------
(* The state after construction: a Database on an empty file, and the      *)
(* caller's instances built by Table.__init__ (id None).                   *)

InitialFields(s) ==
    CASE s = "a1" -> [name |-> "X", age |-> 30]
      [] s = "b1" -> [title |-> "T", published |-> TRUE, author |-> "a1"]
      [] s = "r1" -> [ref_id |-> 5]

NoQuery == [table |-> "-"]

(* The builder calls made so far: the keyword arguments of each where, the *)
(* arguments of the last order_by, the last non-null count given to limit. *)
NoCalls == [wheres |-> <<>>, order |-> [some |-> FALSE], limit |-> [some |-> FALSE]]

Init ==
    /\ db = [t \in Tables |-> {}]
    /\ seq = [t \in Tables |-> 0]
    /\ created = [t \in Tables |-> <<>>]
    /\ inst = [s \in Slots |-> TableInit(InitialFields(s))]
    /\ last = [op |-> "init"]
    /\ q = NoQuery
    /\ calls = NoCalls
    /\ stack = <<>>
    /\ declared = Tables

(* Database.create: CREATE TABLE IF NOT EXISTS leaves an existing table. *)
Create(t) ==
    /\ created' = [created EXCEPT ![t] = IF @ = <<>> THEN GetCreateSql(t) ELSE @]
    /\ last' = [op |-> "create", table |-> t, sql |-> GetCreateSql(t)]
    /\ UNCHANGED <<db, seq, inst, q, calls, stack, declared>>

(* Whether a foreign-key member of the instance references an instance     *)
(* that was never saved.                                                   *)
HasUnsavedReference(insts, s) ==
    \E d \in Range(Decl(TableOf(s))) :
        d.kind = "ForeignKey" /\ insts[GetAttribute(insts[s], d.name)].id = None

(* Database.save: INSERT, then the instance's id is cursor.lastrowid.  The *)
(* created table declares no constraint on a column but the primary key,   *)
(* so the INSERT fails only when the table does not exist.                 *)
Save(s) ==
    LET t == TableOf(s)
        sql == GetInsertSql(inst, s)
        lastrowid == seq[t] + 1
    IN  /\ seq[t] < (IF t = "author" THEN MaxRows ELSE MaxBookRows)
        /\ IF created[t] = <<>>
           THEN /\ last' = [op |-> "save", slot |-> s, status |-> "OperationalError",
                            unsaved |-> HasUnsavedReference(inst, s)]
                /\ UNCHANGED <<db, seq, inst>>
           ELSE /\ db' = [db EXCEPT ![t] = @ \cup
                            {RowOf(created, t, lastrowid, sql.fields, sql.values)}]
                /\ seq' = [seq EXCEPT ![t] = lastrowid]
                /\ inst' = [inst EXCEPT ![s] = SetAttr(@, "id", lastrowid)]
                /\ last' = [op |-> "save", slot |-> s, status |-> "ok",
                            unsaved |-> HasUnsavedReference(inst, s)]
        /\ UNCHANGED <<created, q, calls, stack, declared>>

(* The caller assigns a field of an instance: Table.__setattr__. *)
Assign(s, name, value) ==
    /\ GetAttribute(inst[s], name) # value
    /\ inst' = [inst EXCEPT ![s] = SetAttr(@, name, value)]
    /\ last' = [op |-> "assign", slot |-> s]
    /\ UNCHANGED <<db, seq, created, q, calls, stack, declared>>

(* Database.update had its statement no WHERE clause: every row of the     *)
(* table takes the instance's values.                                      *)
UpdateNoWhere(s) ==
    LET t == TableOf(s)
        sql == GetUpdateSql(inst, s)
    IN  /\ db' = [db EXCEPT ![t] =
                    { RowOf(created, t, r[1], sql.fields, sql.values) : r \in @ }]
        /\ last' = [op |-> "update", slot |-> s, status |-> "ok"]
        /\ UNCHANGED <<seq, created, inst, q, calls, stack, declared>>

(* Database.update: UPDATE ... WHERE id = ?, which matches no row when the *)
(* id is NULL or not stored.                                               *)
Update(s) ==
    LET t == TableOf(s)
        sql == GetUpdateSql(inst, s)
        id == sql.values[Len(sql.values)]
        hit == RowsById(db[t], id)
    IN  /\ IF created[t] = <<>>
           THEN /\ last' = [op |-> "update", slot |-> s, status |-> "OperationalError"]
                /\ UNCHANGED db
           ELSE /\ db' = [db EXCEPT ![t] = (@ \ hit) \cup
                            { RowOf(created, t, r[1], sql.fields, sql.values) : r \in hit }]
                /\ last' = [op |-> "update", slot |-> s, status |-> "ok"]
        /\ UNCHANGED <<seq, created, inst, q, calls, stack, declared>>

(* Database.delete *)
Delete(t, id) ==
    /\ IF created[t] = <<>>
       THEN /\ last' = [op |-> "delete", table |-> t, id |-> id, status |-> "OperationalError"]
            /\ UNCHANGED db
       ELSE /\ db' = [db EXCEPT ![t] = @ \ RowsById(@, id)]
            /\ last' = [op |-> "delete", table |-> t, id |-> id, status |-> "ok"]
    /\ UNCHANGED <<seq, created, inst, q, calls, stack, declared>>

(* Database.get_by_id.  `after` names the instance whose save was the      *)
(* operation right before, when this call reads that instance's id.        *)
GetById(t, id) ==
    /\ last' = [op |-> "get_by_id", table |-> t, id |-> id,
                value |-> GetByIdR(created, db, t, id),
                after |-> IF last.op = "save" /\ last.status = "ok"
                             /\ TableOf(last.slot) = t /\ inst[last.slot].id = id
                          THEN last.slot ELSE "-"]
    /\ UNCHANGED <<db, seq, created, inst, q, calls, stack, declared>>

(* The rows a statement returns, materialized. *)
RunSelect(cr, rows, stmt) ==
    IF ~Prepares(cr, stmt) THEN Raised("OperationalError")
    ELSE BuildAll(cr, rows, stmt.table, stmt.fields,
                  ByRowid(Matching(cr, rows[stmt.table], stmt)), 1)

(* Database.get_all *)
GetAll(t) ==
    /\ last' = [op |-> "get_all", table |-> t,
                value |-> RunSelect(created, db, GetSelectSql(t, <<>>))]
    /\ UNCHANGED <<db, seq, created, inst, q, calls, stack, declared>>

(* Database.filter *)
Filter(t, kwargs) ==
    /\ last' = [op |-> "filter", table |-> t, kwargs |-> kwargs,
                value |-> RunSelect(created, db, GetSelectSql(t, kwargs))]
    /\ UNCHANGED <<db, seq, created, inst, q, calls, stack, declared>>

(* The keyword arguments tried with filter. *)
FilterArgs(t) ==
    CASE t = "author" -> { << <<"name", "X">> >>, << <<"name", "Y">>, <<"age", 20>> >> }
      [] t = "book"   -> { << <<"author_id", 1>> >> }
      [] t = "rec"    -> { << <<"ref_id", 5>> >> }

CrudTables == {"author", "book", "rec"}

IdsOf(t) == 1..(IF t = "author" THEN MaxRows ELSE MaxBookRows)

Assigns(slots) ==
    \E s \in slots : \E d \in Range(Decl(TableOf(s))) :
        \E v \in FieldValues(TableOf(s), d.name) : Assign(s, d.name, v)

Next ==
    \/ \E t \in CrudTables : Create(t)
    \/ \E s \in Slots : Save(s)
    \/ Assigns(Slots)
    \/ \E s \in Slots : Update(s)
    \/ \E t \in CrudTables : \E id \in IdsOf(t) : Delete(t, id)
    \/ \E t \in CrudTables : \E id \in IdsOf(t) : GetById(t, id)
    \/ \E t \in CrudTables : GetAll(t)
    \/ \E t \in CrudTables : \E kw \in FilterArgs(t) : Filter(t, kw)

Spec == Init /\ [][Next]_vars

----------------------------------------------------------------------------
(* Creating the tables of every declared record type. *)

NextCreate == \E t \in Tables : Create(t)

SpecCreate == Init /\ [][NextCreate]_vars

----------------------------------------------------------------------------
(* Saving, changing and updating authors and books, from the state where   *)
(* db.create(Author) and db.create(Book) have run.                         *)

UpdateSlots == {"a1", "b1"}
UpdateTables == {"author", "book"}

InitUpdate ==
    /\ db = [t \in Tables |-> {}]
    /\ seq = [t \in Tables |-> 0]
    /\ created = [t \in Tables |-> IF t \in UpdateTables THEN GetCreateSql(t) ELSE <<>>]
    /\ inst = [s \in Slots |-> TableInit(InitialFields(s))]
    /\ last = [op |-> "create", table |-> "book", sql |-> GetCreateSql("book")]
    /\ q = NoQuery
    /\ calls = NoCalls
    /\ stack = <<>>
    /\ declared = Tables

NextUpdate ==
    \/ \E s \in UpdateSlots : Save(s)
    \/ Assigns(UpdateSlots)
    \/ \E s \in UpdateSlots : Update(s)
    \/ \E t \in UpdateTables : \E id \in IdsOf(t) : Delete(t, id)
    \/ \E t \in UpdateTables : \E id \in IdsOf(t) : GetById(t, id)

SpecUpdate == InitUpdate /\ [][NextUpdate]_vars

----------------------------------------------------------------------------
(* The query builder, QueryObject.  An optional value is Some(v) or        *)
(* Nothing (Python's None).                                                *)

Some(v) == [some |-> TRUE, v |-> v]
Nothing == [some |-> FALSE]

(* QueryObject.__init__ *)
QueryObjectInit(t) ==
    [table |-> t, order_dir |-> " ASC", order_criteria |-> Nothing,
     filter_data |-> Nothing, limit_count |-> Nothing]

(* Database.get *)
Get(t) ==
    /\ q' = QueryObjectInit(t)
    /\ calls' = NoCalls
    /\ last' = [op |-> "get", table |-> t]
    /\ UNCHANGED <<db, seq, created, inst, stack, declared>>

(* QueryObject.where *)
Where(kwargs) ==
    /\ q.table # "-"
    /\ Len(calls.wheres) < MaxCalls
    /\ q' = [q EXCEPT !.filter_data = Some(kwargs)]
    /\ calls' = [calls EXCEPT !.wheres = Append(@, kwargs)]
    /\ last' = [op |-> "where"]
    /\ UNCHANGED <<db, seq, created, inst, stack, declared>>

(* QueryObject.order_by *)
OrderBy(criteria, desc) ==
    /\ q.table # "-"
    /\ q' = [q EXCEPT !.order_criteria = Some(criteria),
                      !.order_dir = IF desc THEN " DESC" ELSE @]
    /\ calls' = [calls EXCEPT !.order = Some(<<criteria, desc>>)]
    /\ last' = [op |-> "order_by"]
    /\ UNCHANGED <<db, seq, created, inst, stack, declared>>

(* QueryObject.limit; count is Nothing for limit(None) and limit(). *)
Limit(count) ==
    /\ q.table # "-"
    /\ q' = [q EXCEPT !.limit_count = IF count.some THEN count ELSE @]
    /\ calls' = [calls EXCEPT !.limit = IF count.some THEN count ELSE @]
    /\ last' = [op |-> "limit"]
    /\ UNCHANGED <<db, seq, created, inst, stack, declared>>

(* Python's truth value of an optional string or integer: None, "" and 0   *)
(* are false.                                                              *)
TruthyStr(o) == o.some /\ o.v # ""
TruthyInt(o) == o.some /\ o.v # 0

(* The statement QueryObject.execute composes once _get_select_sql has     *)
(* returned: ORDER BY <criteria><dir> and LIMIT ? with its parameter.      *)
ComposeSql(qo) ==
    LET base == GetSelectSql(qo.table, qo.filter_data.v)
        ordered == IF TruthyStr(qo.order_criteria)
                   THEN [base EXCEPT !.order = <<qo.order_criteria.v, qo.order_dir>>]
                   ELSE base
    IN  IF TruthyInt(qo.limit_count)
        THEN [ordered EXCEPT !.limit = TRUE, !.params = Append(@, qo.limit_count.v)]
        ELSE ordered

(* ORDER BY: how sqlite compares two values of a column (integers by       *)
(* value, text by code point).                                             *)
ColumnType(cr, t, column) == cr[t][IndexOf(TableColumns(cr, t), column)][2]

ValueLess(type, a, b) == IF type = "TEXT" THEN StrLess(a, b) ELSE a < b

(* The sequences in which the rows S may come back: in rowid order with no *)
(* ORDER BY; with one, in any order that respects it (the order of rows    *)
(* that compare equal is unspecified).                                     *)
RECURSIVE Perms(_)
Perms(S) ==
    IF S = {} THEN { <<>> }
    ELSE UNION { { <<r>> \o p : p \in Perms(S \ {r}) } : r \in S }

Orderings(cr, S, stmt) ==
    IF stmt.order = <<>> THEN { ByRowid(S) }
    ELSE LET k == IndexOf(TableColumns(cr, stmt.table), stmt.order[1])
             type == ColumnType(cr, stmt.table, stmt.order[1])
             Before(a, b) == IF stmt.order[2] = " DESC"
                             THEN ValueLess(type, b[k], a[k])
                             ELSE ValueLess(type, a[k], b[k])
         IN  { p \in Perms(S) : \A i, j \in 1..Len(p) : i < j => ~Before(p[j], p[i]) }

(* LIMIT ?: the first n rows; a negative n is no limit. *)
Limited(stmt, rowseq) ==
    IF ~stmt.limit THEN rowseq
    ELSE LET n == stmt.params[Len(stmt.params)]
         IN  IF n < 0 \/ n >= Len(rowseq) THEN rowseq ELSE SubSeq(rowseq, 1, n)

(* QueryObject.execute.  Unpacking self._filter_data as the keyword        *)
(* arguments of _get_select_sql raises TypeError when it is None.          *)
Execute ==
    /\ q.table # "-"
    /\ IF ~q.filter_data.some
       THEN last' = [op |-> "execute", status |-> "TypeError"]
       ELSE LET stmt == ComposeSql(q)
            IN  IF ~Prepares(created, stmt)
                THEN last' = [op |-> "execute", status |-> "OperationalError", stmt |-> stmt]
                ELSE \E rowseq \in Orderings(created, Matching(created, db[q.table], stmt), stmt) :
                        LET built == BuildAll(created, db, q.table, stmt.fields,
                                              Limited(stmt, rowseq), 1)
                        IN  last' = [op |-> "execute", status |-> built.status,
                                     stmt |-> stmt, value |-> built]
    /\ UNCHANGED <<db, seq, created, inst, q, calls, stack, declared>>

(* The states of the author table the queries run on: any rows that saves, *)
(* updates and deletes of authors leave, with db.create(Author) done.      *)
AuthorRows == { <<id, age, name>> : id \in 1..MaxRows, age \in {20, 30}, name \in {"X", "Y"} }

InitQuery ==
    /\ db \in { [t \in Tables |-> IF t = "author" THEN S ELSE {}] :
                  S \in { R \in SUBSET AuthorRows : \A r, o \in R : r[1] = o[1] => r = o } }
    /\ seq = [t \in Tables |-> IF t = "author" THEN MaxRows ELSE 0]
    /\ created = [t \in Tables |-> IF t = "author" THEN GetCreateSql(t) ELSE <<>>]
    /\ inst = [s \in Slots |-> TableInit(InitialFields(s))]
    /\ last = [op |-> "create", table |-> "author", sql |-> GetCreateSql("author")]
    /\ q = NoQuery
    /\ calls = NoCalls
    /\ stack = <<>>
    /\ declared = Tables

(* The arguments tried with where, order_by and limit. *)
WhereArgs == { <<>>, << <<"name", "X">> >>, << <<"age", 30>> >> }
OrderArgs == {"id", "age", "name"}
LimitArgs == { Nothing, Some(0), Some(1), Some(2) }

NextQuery ==
    \/ Get("author")
    \/ \E kw \in WhereArgs : Where(kw)
    \/ \E c \in OrderArgs : \E desc \in BOOLEAN : OrderBy(c, desc)
    \/ \E n \in LimitArgs : Limit(n)
    \/ Execute

SpecQuery == InitQuery /\ [][NextQuery]_vars

----------------------------------------------------------------------------
(* Row materialization call by call.  The stack holds the activations of   *)
(* get_by_id and _build_instance; the top (last) frame is the one running. *)
(* A get_by_id frame is nested when _build_instance called it.             *)

GetByIdFrame(t, id, nested) ==
    [fn |-> "get_by_id", table |-> t, id |-> id, nested |-> nested]

BuildFrame(t, fields, row) ==
    [fn |-> "_build_instance", table |-> t, fields |-> fields, row |-> row,
     k |-> 1, acc |-> <<>>]

Top == stack[Len(stack)]

NestedDepth == Cardinality({ k \in 1..Len(stack) : stack[k].fn = "get_by_id" /\ stack[k].nested })

(* A value returned to the frames st: a get_by_id frame returns what its   *)
(* _build_instance returned, a _build_instance frame sets the attribute    *)
(* of the foreign key it was resolving and goes on with the next field.    *)
RECURSIVE ReturnTo(_, _)
ReturnTo(st, value) ==
    IF st = <<>> THEN <<>>
    ELSE LET f == st[Len(st)]
             below == SubSeq(st, 1, Len(st) - 1)
         IN  IF f.fn = "get_by_id" THEN ReturnTo(below, value)
             ELSE Append(below, [f EXCEPT !.acc = (StripId(f.fields[f.k]) :> value) @@ @,
                                          !.k = @ + 1])

(* What the read has returned, if anything, once value is returned to the  *)
(* frames st.                                                              *)
Outcome(st, value) ==
    IF ReturnTo(st, value) = <<>>
    THEN [op |-> "materialized", value |-> value]
    ELSE [op |-> "materializing"]

(* A read starts: get_by_id(t, id) is called. *)
StartGetById(t, id) ==
    /\ stack = <<>>
    /\ t \in declared
    /\ stack' = << GetByIdFrame(t, id, FALSE) >>
    /\ last' = [op |-> "materializing"]
    /\ UNCHANGED <<db, seq, created, inst, q, calls, declared>>

(* get_all, filter and execute build each row they fetched. *)
StartRow(t, row) ==
    /\ stack = <<>>
    /\ t \in declared
    /\ stack' = << BuildFrame(t, SelectFields(t), row) >>
    /\ last' = [op |-> "materializing"]
    /\ UNCHANGED <<db, seq, created, inst, q, calls, declared>>

(* The rows the SELECT of the get_by_id frame f fetches. *)
Fetched(f) ==
    ByRowid(Matching(created, db[f.table], GetSelectSql(f.table, << <<"id", f.id>> >>)))

(* get_by_id runs its SELECT: a row is handed to _build_instance, no row   *)
(* returns None.                                                           *)
StepSelect ==
    /\ stack # <<>>
    /\ Top.fn = "get_by_id"
    /\ stack' = IF Fetched(Top) # <<>>
                THEN Append(stack, BuildFrame(Top.table, SelectFields(Top.table),
                                              Fetched(Top)[1]))
                ELSE ReturnTo(stack, NoneObj)
    /\ last' = IF Fetched(Top) # <<>>
               THEN [op |-> "materializing"]
               ELSE Outcome(stack, NoneObj)
    /\ UNCHANGED <<db, seq, created, inst, q, calls, declared>>

(* Whether the field the frame f is at names no foreign key of the type:   *)
(* getattr(table, field) or fk.table raises AttributeError.                *)
NoForeignKey(f) ==
    \/ ~HasAttr(f.table, StripId(f.fields[f.k]))
    \/ GetAttr(f.table, StripId(f.fields[f.k])).kind # "ForeignKey"

(* setattr(instance, field, value) and the next turn of the loop. *)
SetField(f, name, value) == [f EXCEPT !.acc = (name :> value) @@ @, !.k = @ + 1]

(* _build_instance resolved a foreign key on the type being built instead  *)
(* of the referenced type (table for fk.table).                            *)
StepFieldSameTable ==
    /\ stack # <<>>
    /\ Top.fn = "_build_instance"
    /\ Top.k <= Len(Top.fields) /\ Top.k <= Len(Top.row)
    /\ (EndsWithId(Top.fields[Top.k]) /\ ~NoForeignKey(Top)) => NestedDepth < MaxDepth
    /\ stack' =
         IF EndsWithId(Top.fields[Top.k])
         THEN IF NoForeignKey(Top) THEN <<>>
              ELSE Append(stack, GetByIdFrame(Top.table, Top.row[Top.k], TRUE))
         ELSE IF HasAttr(Top.table, Top.fields[Top.k])
                 /\ GetAttr(Top.table, Top.fields[Top.k]).type = "bool"
         THEN [stack EXCEPT ![Len(stack)] = SetField(@, Top.fields[Top.k], Top.row[Top.k] = 1)]
         ELSE [stack EXCEPT ![Len(stack)] = SetField(@, Top.fields[Top.k], Top.row[Top.k])]
    /\ last' = IF EndsWithId(Top.fields[Top.k]) /\ NoForeignKey(Top)
               THEN [op |-> "materialized", value |-> Raised("AttributeError")]
               ELSE [op |-> "materializing"]
    /\ UNCHANGED <<db, seq, created, inst, q, calls, declared>>

(* One turn of _build_instance's loop.  A field ending in _id calls        *)
(* get_by_id on the referenced type (followed while the stack is within    *)
(* the model's bound); an exception unwinds the whole stack.               *)
StepField ==
    /\ stack # <<>>
    /\ Top.fn = "_build_instance"
    /\ Top.k <= Len(Top.fields) /\ Top.k <= Len(Top.row)
    /\ (EndsWithId(Top.fields[Top.k]) /\ ~NoForeignKey(Top)) => NestedDepth < MaxDepth
    /\ stack' =
         IF EndsWithId(Top.fields[Top.k])
         THEN IF NoForeignKey(Top) THEN <<>>
              ELSE Append(stack, GetByIdFrame(GetAttr(Top.table, StripId(Top.fields[Top.k])).table,
                                              Top.row[Top.k], TRUE))
         ELSE IF HasAttr(Top.table, Top.fields[Top.k])
                 /\ GetAttr(Top.table, Top.fields[Top.k]).type = "bool"
         THEN [stack EXCEPT ![Len(stack)] = SetField(@, Top.fields[Top.k], Top.row[Top.k] = 1)]
         ELSE [stack EXCEPT ![Len(stack)] = SetField(@, Top.fields[Top.k], Top.row[Top.k])]
    /\ last' = IF EndsWithId(Top.fields[Top.k]) /\ NoForeignKey(Top)
               THEN [op |-> "materialized", value |-> Raised("AttributeError")]
               ELSE [op |-> "materializing"]
    /\ UNCHANGED <<db, seq, created, inst, q, calls, declared>>

(* The instance the _build_instance frame f returns. *)
Built(f) == [status |-> "ok", table |-> f.table, f |-> f.acc]

(* _build_instance returns its instance. *)
StepReturn ==
    /\ stack # <<>>
    /\ Top.fn = "_build_instance"
    /\ Top.k > Len(Top.fields) \/ Top.k > Len(Top.row)
    /\ stack' = ReturnTo(SubSeq(stack, 1, Len(stack) - 1), Built(Top))
    /\ last' = Outcome(SubSeq(stack, 1, Len(stack) - 1), Built(Top))
    /\ UNCHANGED <<db, seq, created, inst, q, calls, declared>>

(* The foreign-key references among a set of record types. *)
References(types) ==
    UNION { { <<t, d.table>> : d \in { e \in Range(Decl(t)) : e.kind = "ForeignKey" } }
            : t \in types }

(* The types reached from t by one to n references. *)
RECURSIVE ReachedFrom(_, _, _)
ReachedFrom(types, t, n) ==
    IF n = 0 THEN {}
    ELSE LET next == { e[2] : e \in { r \in References(types) : r[1] = t } }
         IN  next \cup UNION { ReachedFrom(types, u, n - 1) : u \in next }

HasCycle(types) == \E t \in types : t \in ReachedFrom(types, t, Cardinality(types))

(* The number of references on the longest chain from t (no cycle). *)
RECURSIVE ChainFrom(_, _)
ChainFrom(types, t) ==
    LET next == { e[2] : e \in { r \in References(types) : r[1] = t } }
        lens == { ChainFrom(types, u) : u \in next }
    IN  IF next = {} THEN 0 ELSE 1 + CHOOSE m \in lens : \A o \in lens : o <= m

LongestChain(types) ==
    LET lens == { ChainFrom(types, t) : t \in types }
    IN  CHOOSE m \in lens : \A o \in lens : o <= m

(* The stored states the reads run on.  With no cycle declared: authors,   *)
(* books and reviews whose foreign keys are null, stored or dangling, and  *)
(* a rec.  With Node declared as well: nodes whose nxt is null, stored     *)
(* (itself or the other node) or dangling.                                 *)
ChainTypes == {"author", "book", "review", "rec"}
RefIds == {None, 1, 2}

Pick(S) == { {} } \cup { {r} : r \in S }

InitMaterialize ==
    /\ \/ /\ declared = ChainTypes
          /\ \E a \in Pick({ <<1, 30, "X">> }),
                b \in Pick({ <<1, ref, 1, "T">> : ref \in RefIds }),
                v \in Pick({ <<1, ref, 5>> : ref \in RefIds }),
                r \in Pick({ <<1, 5>> }) :
                db = [t \in Tables |->
                        CASE t = "author" -> a [] t = "book" -> b
                          [] t = "review" -> v [] t = "rec" -> r [] OTHER -> {}]
       \/ /\ declared = ChainTypes \cup {"node"}
          /\ \E n1 \in Pick({ <<1, "X", ref>> : ref \in RefIds }),
                n2 \in Pick({ <<2, "Y", ref>> : ref \in RefIds }) :
                db = [t \in Tables |->
                        CASE t = "author" -> { <<1, 30, "X">> }
                          [] t = "book" -> { <<1, 1, 1, "T">> }
                          [] t = "node" -> n1 \cup n2 [] OTHER -> {}]
    /\ seq = [t \in Tables |-> 2]
    /\ created = [t \in Tables |-> IF t \in declared THEN GetCreateSql(t) ELSE <<>>]
    /\ inst = [s \in Slots |-> TableInit(InitialFields(s))]
    /\ last = [op |-> "create"]
    /\ q = NoQuery
    /\ calls = NoCalls
    /\ stack = <<>>

NextMaterialize ==
    \/ \E t \in Tables : \E id \in RefIds : StartGetById(t, id)
    \/ \E t \in Tables : \E row \in db[t] : StartRow(t, row)
    \/ StepSelect
    \/ StepField
    \/ StepReturn

(* A call under way goes on running: the program is single-threaded and    *)
(* synchronous.                                                            *)
SpecMaterialize ==
    /\ InitMaterialize /\ [][NextMaterialize]_vars
    /\ WF_vars(StepSelect) /\ WF_vars(StepField) /\ WF_vars(StepReturn)

----------------------------------------------------------------------------
(* What an instance read back is compared with: the caller's instance s.   *)
(* Scalar fields are equal (a boolean field as a boolean), and a           *)
(* foreign-key field holds an instance with the referenced instance's id   *)
(* (null when the referenced instance has no id: the same referenced id).  *)

SameAs(obj, insts, s) ==
    /\ obj.status = "ok"
    /\ obj.f["id"] = insts[s].id
    /\ \A d \in Range(Decl(TableOf(s))) :
        /\ d.name \in DOMAIN obj.f
        /\ IF d.kind = "ForeignKey"
           THEN LET ref == insts[GetAttribute(insts[s], d.name)].id
                IN  IF ref = None THEN obj.f[d.name].status = "None"
                    ELSE /\ obj.f[d.name].status = "ok"
                         /\ obj.f[d.name].f["id"] = ref
           ELSE obj.f[d.name] = GetAttribute(insts[s], d.name)

(* Whether the row of instance s and the rows its foreign keys reference   *)
(* are stored.                                                             *)
RowStored(rows, insts, s) == RowsById(rows[TableOf(s)], insts[s].id) # {}

ReferencesStored(rows, insts, s) ==
    \A d \in Range(Decl(TableOf(s))) :
        d.kind = "ForeignKey" =>
            LET ref == insts[GetAttribute(insts[s], d.name)].id
            IN  ref = None \/ RowsById(rows[d.table], ref) # {}

(* C1: save(instance) followed by get_by_id(type, instance.id) returns an  *)
(* instance equal to the original, field by field, for every record type   *)
(* whose foreign-key fields reference saved instances (their rows stored). *)
C1_RoundTrip ==
    (/\ last.op = "get_by_id"
     /\ last.after # "-"
     /\ ~HasUnsavedReference(inst, last.after)
     /\ ReferencesStored(db, inst, last.after))
    => SameAs(last.value, inst, last.after)

----------------------------------------------------------------------------
(* C2 as claimed: the columns of the create statement are id, then every   *)
(* declared field once, in declaration order.                              *)
C2_DeclarationOrder ==
    \A t \in Tables : created[t] # <<>> =>
        TableColumns(created, t)
            = <<"id">> \o [k \in 1..Len(Decl(t)) |-> ColumnName(Decl(t)[k])]

(* C2 as amended: the columns of the create statement are id, then every   *)
(* declared field exactly once, in ascending order of the field's name,    *)
(* a foreign-key field f as f_id INTEGER and a column with its mapped      *)
(* storage type.                                                           *)
C2_NameOrder ==
    \A t \in Tables : created[t] # <<>> =>
        LET cr == created[t]
            n  == Len(Decl(t))
        IN  /\ Len(cr) = n + 1
            /\ cr[1] = <<"id", "INTEGER PRIMARY KEY AUTOINCREMENT">>
            /\ \A d \in Range(Decl(t)) :
                 Cardinality({ k \in 2..(n + 1) : cr[k] = ColumnDef(d) }) = 1
            /\ \A d, e \in Range(Decl(t)) :
                 StrLess(d.name, e.name) =>
                    IndexOf(cr, ColumnDef(d)) < IndexOf(cr, ColumnDef(e))

C2_Witness ==
    /\ created["book"] # <<>>
    /\ TableColumns(created, "book") = <<"id", "author_id", "published", "title">>
    /\ last.op = "create"

----------------------------------------------------------------------------
(* C3: an instance's id is null until its first save, and once set no      *)
(* gateway operation changes it.                                           *)
C3_IdImmutable ==
    [][\A s \in Slots :
          /\ (inst[s].id = None /\ inst'[s].id # None)
                => (last'.op = "save" /\ last'.slot = s)
          /\ inst[s].id # None => inst'[s].id = inst[s].id]_vars

----------------------------------------------------------------------------
(* C4: save of an instance whose foreign-key field references a never      *)
(* saved instance fails with a storage error, inserts no row and leaves    *)
(* the instance's id null.                                                 *)
C4_UnsavedReferenceRejected ==
    [][(last'.op = "save" /\ last'.unsaved) =>
          /\ last'.status # "ok"
          /\ db' = db
          /\ inst'[last'.slot].id = None]_vars

----------------------------------------------------------------------------
(* Assignments and reads leave every stored row as it is. *)
MutationsAreLocal ==
    last'.op \in {"assign", "get_by_id"} => db' = db

(* An update changes no row but the one with the instance's id. *)
UpdateTouchesOneRow ==
    last'.op = "update" =>
        \A t \in Tables :
            /\ { r[1] : r \in db'[t] } = { r[1] : r \in db[t] }
            /\ \A r \in db[t] :
                 (t # TableOf(last'.slot) \/ r[1] # inst[last'.slot].id) => r \in db'[t]

----------------------------------------------------------------------------
(* The ids of the instances a read returned, and of the rows of the        *)
(* builder's table that satisfy every constraint of every where call made. *)

ReturnedIds(value) == { value.list[k].f["id"] : k \in 1..Len(value.list) }

SatisfiesAll(row, t, wheres) ==
    \A w \in 1..Len(wheres) : \A k \in 1..Len(wheres[w]) :
        row[IndexOf(TableColumns(created, t), wheres[w][k][1])] = wheres[w][k][2]

(* C5: execute() is legal after any sequence of where / order_by / limit   *)
(* calls, no where call included: it never raises, and with no where call  *)
(* (and no limit) it returns the instances get_all returns.                *)
C5_ExecuteNeverRaises ==
    last.op = "execute" =>
        /\ last.status = "ok"
        /\ (calls.wheres = <<>> /\ ~calls.limit.some) =>
              last.value = RunSelect(created, db, GetSelectSql(q.table, <<>>))

(* C6: after limit(count) with a non-null count, 0 included, execute()     *)
(* appends LIMIT ? bound to count and returns at most count instances;     *)
(* with no non-null count given it appends no LIMIT.                       *)
C6_LimitApplied ==
    (last.op = "execute" /\ last.status = "ok") =>
        IF calls.limit.some
        THEN /\ last.stmt.limit
             /\ last.stmt.params[Len(last.stmt.params)] = calls.limit.v
             /\ Len(last.value.list) <= calls.limit.v
        ELSE /\ ~last.stmt.limit
             /\ ReturnedIds(last.value)
                  = { r[1] : r \in Matching(created, db[q.table], last.stmt) }

(* C8: after one or more where calls, execute() returns exactly the rows   *)
(* that satisfy the constraints of every where call made (those among them *)
(* that a limit keeps).                                                    *)
C8_WhereAccumulates ==
    (last.op = "execute" /\ last.status = "ok" /\ calls.wheres # <<>>) =>
        LET all == { r[1] : r \in { o \in db[q.table] : SatisfiesAll(o, q.table, calls.wheres) } }
        IN  IF last.stmt.limit
            THEN ReturnedIds(last.value) \subseteq all
            ELSE ReturnedIds(last.value) = all

(* C9: the statement execute() runs orders by the field of the most recent *)
(* order_by call, DESC exactly when that call passed desc=True, else ASC.  *)
C9_LastOrderByWins ==
    (last.op = "execute" /\ last.status # "TypeError" /\ calls.order.some) =>
        last.stmt.order = << calls.order.v[1],
                             IF calls.order.v[2] THEN " DESC" ELSE " ASC" >>

----------------------------------------------------------------------------
(* The foreign-key fields a _build_instance activation has set: null when  *)
(* the stored id is null or names no stored row, else a nested instance    *)
(* with that id.                                                           *)
NullEndsBranch ==
    \A i \in 1..Len(stack) :
        stack[i].fn = "_build_instance" =>
            \A j \in 1..(stack[i].k - 1) :
                EndsWithId(stack[i].fields[j]) =>
                    LET name == StripId(stack[i].fields[j])
                        held == stack[i].acc[name]
                        rows == RowsById(db[GetAttr(stack[i].table, name).table],
                                         stack[i].row[j])
                    IN  IF stack[i].row[j] = None \/ rows = {}
                        THEN held = NoneObj
                        ELSE held.status = "ok" /\ held.f["id"] = stack[i].row[j]

(* C10: when the foreign-key references among the declared record types    *)
(* form no cycle, materializing a stored row finishes, and its nested      *)
(* get_by_id calls are never deeper than the longest chain of references   *)
(* (a null or dangling id gives a null field and ends that branch).        *)
C10_MaterializationTerminates ==
    /\ [](~HasCycle(declared) => NestedDepth <= LongestChain(declared))
    /\ [](~HasCycle(declared) => NullEndsBranch)
    /\ (~HasCycle(declared) /\ stack # <<>>) ~> (stack = <<>>)

(* A review read back with its book and the book's author nested in it:    *)
(* the read went two calls deep, the length of the chain                   *)
(* review -> book -> author, and finished.                                 *)
C10_Witness ==
    /\ ~HasCycle(declared)
    /\ LongestChain(declared) = 2
    /\ stack = <<>>
    /\ last.op = "materialized"
    /\ last.value.status = "ok"
    /\ last.value.table = "review"
    /\ last.value.f["book"].status = "ok"
    /\ last.value.f["book"].f["author"].status = "ok"

(* A book read back whose stored author id names no row: the field is null. *)
DanglingReadsNull ==
    /\ ~HasCycle(declared)
    /\ stack = <<>>
    /\ last.op = "materialized"
    /\ last.value.status = "ok"
    /\ last.value.table = "book"
    /\ db["author"] = {}
    /\ \E r \in db["book"] : r[2] = 2
    /\ last.value.f["author"] = NoneObj

(* With Node referencing Node, a node whose nxt is itself is followed to   *)
(* the bound of the model.                                                 *)
CycleIsFollowed ==
    HasCycle(declared) /\ NestedDepth = MaxDepth
====
